---------------------------- MODULE Spec2Model ----------------------------
(***************************************************************************)
(* State-machine model of app.py, the Streamlit script of the AI Security  *)
(* Log Analyser.  Streamlit reruns the whole script on every interaction;  *)
(* one action of the model is one script run (one page render).  The only  *)
(* state that survives a run is st.session_state.                          *)
(*                                                                         *)
(* Text is a sequence of one-character strings, so that splitting,         *)
(* case folding, substring search and length are computed, not assumed.    *)
(* An uploaded file is a sequence of lines together with the positions at  *)
(* which the reads that pd.read_csv issues on the stream end: the upload   *)
(* is an io.BytesIO, read_csv wraps it in a TextIOWrapper and leaves the   *)
(* stream where its last read ended, which is what the fallback            *)
(* uploaded_file.read() of line 69 then starts from.  One read returns up  *)
(* to 262144 characters: an upload shorter than that is consumed whole by  *)
(* the first read, whether read_csv then succeeds or raises.               *)
(*                                                                         *)
(* What pandas, scikit-learn and transformers do behind lines 67, 89-90,   *)
(* 112, 128 and 130 is modelled as far as the script's control flow and    *)
(* counts depend on it; what they decide on their own (the labels of the   *)
(* forest, a failing or blocking pipeline) is an input of the run.         *)
(***************************************************************************)
EXTENDS Integers, Sequences, FiniteSets, TLC

\* ------------------------------------------------------------------ bounds
\* Longest uploaded file, in lines.
MaxItems == 3
\* Most reads read_csv needs to reach the end of an uploaded file.
MaxReads == 2
\* Most constructions of the summarization pipeline explored.
MaxLoads == 2

\* -------------------------------------------------------------------- text
UpperLetters ==
  <<"A","B","C","D","E","F","G","H","I","J","K","L","M",
    "N","O","P","Q","R","S","T","U","V","W","X","Y","Z">>

LowerLetters ==
  <<"a","b","c","d","e","f","g","h","i","j","k","l","m",
    "n","o","p","q","r","s","t","u","v","w","x","y","z">>

\* str.lower on one character.
Lower(c) ==
  IF \E i \in 1..26 : UpperLetters[i] = c
  THEN LowerLetters[CHOOSE i \in 1..26 : UpperLetters[i] = c]
  ELSE c

LowerText(t) == [i \in 1..Len(t) |-> Lower(t[i])]

\* The byte 0xFF, which no UTF-8 text contains.
BadByte == "0xFF"

\* bytes.decode("utf-8") succeeds on these lines.
Decodable(lines) ==
  \A i \in 1..Len(lines) : \A j \in 1..Len(lines[i]) : lines[i][j] # BadByte

\* The patterns of lines 89 and 90.
PatError == <<"e","r","r","o","r">>
PatWarn == <<"w","a","r","n">>

\* Series.str.contains(pat, case=False) on one cell.
ContainsNoCase(t, pat) ==
  \E i \in 1..(Len(t) - Len(pat) + 1) :
     SubSeq(LowerText(t), i, i + Len(pat) - 1) = LowerText(pat)

\* ------------------------------------------------------------ the uploads
\* The lines uploads are made of.
LineLogs == <<"L","o","g","s">>
LineWarnError == <<"W","a","r","n",",","E","R","R","O","R">>
LineBad == <<BadByte>>

Items == {LineLogs, LineWarnError, LineBad}

ItemSeqs == UNION {[1..n -> Items] : n \in 0..MaxItems}

\* Where the reads on the stream may end: after line p, for p in the set.
CutSets(n) == {c \in SUBSET (1..(n - 1)) : Cardinality(c) < MaxReads}

Files ==
  UNION {{[items |-> s, cuts |-> c] : c \in CutSets(Len(s))} : s \in ItemSeqs}

\* The line at which the read that returns line pos ends.
ChunkEnd(file, pos) ==
  LET later == {c \in file.cuts : c >= pos}
  IN IF later = {} THEN Len(file.items)
     ELSE CHOOSE c \in later : \A d \in later : c <= d

\* ------------------------------------------------------------ pd.read_csv
\* A missing value as DataFrame.astype(str) renders it.
NaNText == <<"n","a","n">>

RECURSIVE SplitFrom(_, _, _)
SplitFrom(line, i, field) ==
  IF i > Len(line) THEN <<field>>
  ELSE IF line[i] = ","
       THEN <<field>> \o SplitFrom(line, i + 1, <<>>)
       ELSE SplitFrom(line, i + 1, Append(field, line[i]))

\* The fields of one line of comma-separated text.
SplitFields(line) == SplitFrom(line, 1, <<>>)

PadTo(fields, n) ==
  [i \in 1..(IF Len(fields) < n THEN n ELSE Len(fields)) |->
     IF i <= Len(fields) THEN fields[i] ELSE NaNText]

\* The tokenizer at the end of a line: the header and the first data line
\* may have any number of fields; a later line with more fields than the
\* line before it is "Expected n fields, saw m"; a shorter one is padded.
EndLine(st, line) ==
  LET fields == SplitFields(line)
      n == Len(st.rows)
      ex == IF n = 0 THEN 0 ELSE Len(st.rows[n])
  IN IF st.err THEN st
     ELSE IF n > 1 /\ Len(fields) > ex THEN [st EXCEPT !.err = TRUE]
     ELSE [st EXCEPT !.rows = Append(@, IF n >= 1 THEN PadTo(fields, ex) ELSE fields)]

RECURSIVE TokenizeLines(_, _)
TokenizeLines(lines, st) ==
  IF lines = <<>> THEN st
  ELSE TokenizeLines(Tail(lines), EndLine(st, Head(lines)))

\* The frame of the tokenized lines: the first line names the columns; when
\* the first data line has more fields than the header, the leading fields
\* of every line are the index and not columns.
FrameOf(rows) ==
  LET header == rows[1]
      data == Tail(rows)
      leading == IF data = <<>> THEN 0 ELSE Len(data[1]) - Len(header)
  IN [columns |-> header,
      rows |-> [i \in 1..Len(data) |-> SubSeq(data[i], leading + 1, Len(data[i]))]]

EmptyFrame == [columns |-> <<>>, rows |-> <<>>]

\* read_csv from line start on: one read of the stream after another, each
\* decoded and then tokenized.  consumed is where the stream is left.
RECURSIVE ReadChunks(_, _, _)
ReadChunks(file, start, st) ==
  IF start > Len(file.items)
  THEN IF st.rows = <<>>
       THEN [ok |-> FALSE, consumed |-> Len(file.items), df |-> EmptyFrame]
       ELSE [ok |-> TRUE, consumed |-> Len(file.items), df |-> FrameOf(st.rows)]
  ELSE LET end == ChunkEnd(file, start)
           chunk == SubSeq(file.items, start, end)
           next == TokenizeLines(chunk, st)
       IN IF ~Decodable(chunk) \/ next.err
          THEN [ok |-> FALSE, consumed |-> end, df |-> EmptyFrame]
          ELSE ReadChunks(file, end + 1, next)

\* Line 67.
ReadCsv(file) == ReadChunks(file, 1, [rows |-> <<>>, err |-> FALSE])

\* Lines 69-70: what is left of the stream, decoded and split into lines.
Fallback(file, consumed) ==
  LET rest == SubSeq(file.items, consumed + 1, Len(file.items))
  IN IF ~Decodable(rest)
     THEN [raised |-> TRUE, df |-> EmptyFrame]
     ELSE [raised |-> FALSE,
           df |-> [columns |-> <<LineLogs>>,
                   rows |-> [i \in 1..Len(rest) |-> <<rest[i]>>]]]

\* Lines 66-70.
Ingest(file) ==
  LET r == ReadCsv(file)
  IN IF r.ok THEN [raised |-> FALSE, df |-> r.df]
     ELSE Fallback(file, r.consumed)

\* What the Upload Logs page can be given: each upload explored, as its
\* lines and what lines 66-70 make of it.
Uploads ==
  {[lines |-> f.items, raised |-> Ingest(f).raised, df |-> Ingest(f).df] : f \in Files}

\* ------------------------------------------------- the analysis, stage by stage
\* Lines 89-90: a row matches when any of its cells contains the pattern.
RowMatches(row, pat) == \E c \in 1..Len(row) : ContainsNoCase(row[c], pat)

\* Mutant of CountMatching: the header line is counted as a record too.
CountMatchingWithHeader(df, pat) ==
  Cardinality({i \in 1..Len(df.rows) : RowMatches(df.rows[i], pat)})
    + (IF RowMatches(df.columns, pat) THEN 1 ELSE 0)

CountMatching(df, pat) ==
  Cardinality({i \in 1..Len(df.rows) : RowMatches(df.rows[i], pat)})

\* Line 88.
TotalLogs(df) == Len(df.rows)

\* Line 100: the "Normal" slice of the chart.
NormalCount(total_logs, error_count, warning_count) ==
  total_logs - (error_count + warning_count)

\* Line 109.
HasLogsColumn(df) == \E c \in 1..Len(df.columns) : df.columns[c] = LineLogs

\* Line 110: the one feature of a record, the length of its Logs cell.
Vectorized(df) ==
  LET c == CHOOSE k \in 1..Len(df.columns) : df.columns[k] = LineLogs
  IN [i \in 1..Len(df.rows) |-> Len(df.rows[i][c])]

\* Lines 111-112.  IsolationForest.fit_predict refuses an empty sample; on a
\* sample it labels every record 1 or -1.  The forest itself is outside the
\* repository: all that is fixed here is that records of equal feature get
\* equal labels and that the record of highest score is never below the
\* contamination percentile, so never -1.
FitPredict(X) ==
  IF Len(X) = 0 THEN [raised |-> TRUE, labelings |-> {<<>>}]
  ELSE [raised |-> FALSE,
        labelings |->
          {p \in [1..Len(X) -> {-1, 1}] :
             /\ \A i, j \in 1..Len(X) : X[i] = X[j] => p[i] = p[j]
             /\ \E i \in 1..Len(X) : p[i] = 1}]

\* What the environment decides in one run of the analysis on df: whether
\* computing the counts (lines 88-90, inside no try) raises, the labels of
\* the forest, and what the summarization pipeline does.
SummEnvs == {"ok", "load_fails", "infer_fails", "never_returns"}

PredsChoices(df) ==
  IF HasLogsColumn(df) THEN FitPredict(Vectorized(df)).labelings ELSE {<<>>}

\* Mutant of AnomalyBlock: the block without its try/except.
AnomalyBlockUnguarded(df, preds) ==
  IF ~HasLogsColumn(df)
  THEN [status |-> "unsupported", n_preds |-> 0, n_anomalies |-> 0,
        ui |-> {"not_supported"}, propagates |-> FALSE]
  ELSE IF FitPredict(Vectorized(df)).raised
  THEN [status |-> "raised", n_preds |-> 0, n_anomalies |-> 0,
        ui |-> {}, propagates |-> TRUE]
  ELSE LET n == Cardinality({i \in 1..Len(preds) : preds[i] = -1})
       IN [status |-> "ok", n_preds |-> Len(preds), n_anomalies |-> n,
           ui |-> IF n = 0 THEN {"no_anomalies"} ELSE {"found_anomalies"},
           propagates |-> FALSE]

\* Lines 107-123.  propagates: the exception leaves the block.
AnomalyBlock(df, preds) ==
  IF ~HasLogsColumn(df)
  THEN [status |-> "unsupported", n_preds |-> 0, n_anomalies |-> 0,
        ui |-> {"not_supported"}, propagates |-> FALSE]
  ELSE IF FitPredict(Vectorized(df)).raised
  THEN [status |-> "raised", n_preds |-> 0, n_anomalies |-> 0,
        ui |-> {"anomaly_failed"}, propagates |-> FALSE]
  ELSE LET n == Cardinality({i \in 1..Len(preds) : preds[i] = -1})
       IN [status |-> "ok", n_preds |-> Len(preds), n_anomalies |-> n,
           ui |-> IF n = 0 THEN {"no_anomalies"} ELSE {"found_anomalies"},
           propagates |-> FALSE]

\* Lines 126-133.  loaded: pipeline(...) of line 128 returned a model.
InsightsBlock(env) ==
  CASE env = "ok" ->
         [status |-> "ok", ui |-> {"summary"}, loaded |-> 1, propagates |-> FALSE]
    [] env = "load_fails" ->
         [status |-> "raised", ui |-> {"summ_failed"}, loaded |-> 0, propagates |-> FALSE]
    [] env = "infer_fails" ->
         [status |-> "raised", ui |-> {"summ_failed"}, loaded |-> 1, propagates |-> FALSE]
    [] env = "never_returns" ->
         [status |-> "hung", ui |-> {}, loaded |-> 1, propagates |-> FALSE]

NoReport ==
  [classify |-> "not_run", total_logs |-> 0, error_count |-> 0,
   warning_count |-> 0, normal |-> 0, anomaly |-> "not_run", n_preds |-> 0, n_anomalies |-> 0, summ |-> "not_run"]

NoRun == [report |-> NoReport, ui |-> {}, crashed |-> FALSE, loaded |-> 0]

\* Lines 85-133 on the stored frame df.  An exception that leaves a block
\* ends the script run: nothing after it is executed.
AnalyseLogs(df, countsRaise, preds, env) ==
  LET total_logs == TotalLogs(df)
      error_count == CountMatching(df, PatError)
      warning_count == CountMatching(df, PatWarn)
      counted == [NoReport EXCEPT !.classify = "ok", !.total_logs = total_logs,
                    !.error_count = error_count, !.warning_count = warning_count,
                    !.normal = NormalCount(total_logs, error_count, warning_count)]
      a == AnomalyBlock(df, preds)
      s == InsightsBlock(env)
      afterA == [counted EXCEPT !.anomaly = a.status, !.n_preds = a.n_preds,
                   !.n_anomalies = a.n_anomalies]
  IN IF countsRaise
     THEN [NoRun EXCEPT !.report = [NoReport EXCEPT !.classify = "raised"],
             !.crashed = TRUE]
     ELSE IF a.propagates
     THEN [report |-> afterA, ui |-> {"metrics", "chart"}, crashed |-> TRUE,
           loaded |-> 0]
     ELSE [report |-> [afterA EXCEPT !.summ = s.status],
           ui |-> {"metrics", "chart"} \cup a.ui \cup s.ui,
           crashed |-> s.propagates, loaded |-> s.loaded]

\* Lines 82-85.
AnalysisRun(ss, countsRaise, preds, env) ==
  IF ~ss.has_logs
  THEN [NoRun EXCEPT !.ui = {"upload_first"}]
  ELSE AnalyseLogs(ss.logs, countsRaise, preds, env)

\* Mutant of StoredAfterUpload: line 74 runs whether or not line 69 raised.
StoredAfterUploadAlways(ss, up) == [has_logs |-> TRUE, logs |-> up.df]

\* Lines 65-74: session_state after the Upload Logs page was given upload
\* up.  An exception of line 69 ends the run before line 74.
StoredAfterUpload(ss, up) ==
  IF up.raised THEN ss ELSE [has_logs |-> TRUE, logs |-> up.df]

\* How the upload ended; of an upload that raised, nothing is kept.
UploadOutcome(up) ==
  IF up.raised THEN [status |-> "raised", lines |-> <<>>]
  ELSE [status |-> "stored", lines |-> up.lines]

\* -------------------------------------------------------------- the state
VARIABLES
  session_state,  \* has_logs: "logs" in st.session_state; logs: the frame
  uploaded_file,     \* the upload most recently submitted: how it ended, the lines stored
  page,           \* the page the last script run rendered
  crashed,        \* the last run ended in an uncaught exception
  ui,             \* what the last run showed: metrics, warnings, infos
  report,         \* what each stage of the last run did
  pipelineLoads,  \* pipeline(...) constructions so far (line 128)
  pc              \* "idle", or "in_summarizer": line 130 has not returned

vars ==
  <<session_state, uploaded_file, page, crashed, ui, report, pipelineLoads, pc>>

Init ==
  /\ session_state = [has_logs |-> FALSE, logs |-> EmptyFrame]
  /\ uploaded_file = [status |-> "none", lines |-> <<>>]
  /\ page = "none"
  /\ crashed = FALSE
  /\ ui = {}
  /\ report = NoReport
  /\ pipelineLoads = 0
  /\ pc = "idle"

\* Lines 43-56.
HomePage ==
  /\ pc = "idle"
  /\ page' = "home"
  /\ crashed' = FALSE
  /\ ui' = {"tip"}
  /\ report' = NoReport
  /\ UNCHANGED <<session_state, uploaded_file, pipelineLoads, pc>>

\* Lines 61-74 with no file in the uploader.
UploadLogsPageEmpty ==
  /\ pc = "idle"
  /\ page' = "upload"
  /\ crashed' = FALSE
  /\ ui' = {}
  /\ report' = NoReport
  /\ UNCHANGED <<session_state, uploaded_file, pipelineLoads, pc>>

\* Lines 61-74 with a file in the uploader.
UploadLogsPage ==
  /\ pc = "idle"
  /\ \E up \in Uploads :
       /\ page' = "upload"
       /\ report' = NoReport
       /\ session_state' = StoredAfterUpload(session_state, up)
       /\ uploaded_file' = UploadOutcome(up)
       /\ crashed' = up.raised
       /\ ui' = IF up.raised THEN {} ELSE {"preview"}
  /\ UNCHANGED <<pipelineLoads, pc>>

\* Lines 79-133.
AnalysisPage ==
  /\ pc = "idle"
  /\ pipelineLoads < MaxLoads
  /\ \E countsRaise \in BOOLEAN : \E env \in SummEnvs :
     \E preds \in PredsChoices(session_state.logs) :
       LET run == AnalysisRun(session_state, countsRaise, preds, env)
       IN /\ page' = "analysis"
          /\ report' = run.report
          /\ ui' = run.ui
          /\ crashed' = run.crashed
          /\ pipelineLoads' = pipelineLoads + run.loaded
          /\ pc' = IF run.report.summ = "hung" THEN "in_summarizer" ELSE "idle"
  /\ UNCHANGED <<session_state, uploaded_file>>

Next == HomePage \/ UploadLogsPageEmpty \/ UploadLogsPage \/ AnalysisPage

Spec == Init /\ [][Next]_vars

\* ------------------------------------------------------------------ types
TypeOK ==
  /\ session_state.has_logs \in BOOLEAN
  /\ uploaded_file.status \in {"none", "stored", "raised"}
  /\ page \in {"none", "home", "upload", "analysis"}
  /\ crashed \in BOOLEAN
  /\ report.classify \in {"not_run", "ok", "raised"}
  /\ report.anomaly \in {"not_run", "ok", "unsupported", "raised"}
  /\ report.summ \in {"not_run", "ok", "raised", "hung"}
  /\ pipelineLoads \in 0..MaxLoads
  /\ pc \in {"idle", "in_summarizer"}

\* ------------------------------------------- what the claims are stated with
\* Two characters that are the same letter, whatever their case.
SameLetter(a, b) ==
  \/ a = b
  \/ \E k \in 1..26 : {a, b} = {UpperLetters[k], LowerLetters[k]}

\* The text of a record: its field values, space-joined.
RECURSIVE RecordText(_)
RecordText(row) ==
  IF row = <<>> THEN <<>>
  ELSE IF Len(row) = 1 THEN row[1]
  ELSE row[1] \o <<" ">> \o RecordText(Tail(row))

\* text contains pat, case-insensitively.
Mentions(text, pat) ==
  \E i \in 1..Len(text) :
     /\ i + Len(pat) - 1 <= Len(text)
     /\ \A k \in 1..Len(pat) : SameLetter(text[i + k - 1], pat[k])

RecordsMentioning(df, pat) ==
  {i \in 1..Len(df.rows) : Mentions(RecordText(df.rows[i]), pat)}

StoredRecords == session_state.logs.rows

\* The last run was an analysis of stored records.
AnalysedRecords == page = "analysis" /\ session_state.has_logs

\* ----------------------------------------------------------------- claims
\* C1: in every analysis run over stored records a failure of one stage is
\* caught and recorded for that stage only, and the other two stages still
\* run; a failure while the counts are computed does not stop anomaly
\* detection and summarization.
C1_StageIsolation ==
  AnalysedRecords =>
    /\ ~crashed
    /\ report.anomaly # "not_run"
    /\ report.summ # "not_run"

\* C2: when the most recent upload failed to decode, a subsequent analysis
\* runs none of the three stages, so never analyses records of an earlier
\* upload.
C2_FailedIngestLeavesNothing ==
  (page = "analysis" /\ uploaded_file.status = "raised") =>
    /\ report.classify = "not_run"
    /\ report.anomaly = "not_run"
    /\ report.summ = "not_run"

\* C3: when anomaly-model fitting raises, or the summarization pipeline
\* raises, the exception is caught at that stage, that stage's warning is
\* shown, the run does not crash and the counts computed before stay
\* reported; after a failed anomaly detection summarization is still
\* attempted.
C3_RecoverableFailuresDegrade ==
  LET counted ==
        /\ ~crashed
        /\ report.classify = "ok"
        /\ {"metrics", "chart"} \subseteq ui
        /\ report.total_logs = Len(StoredRecords)
        /\ report.error_count = Cardinality(RecordsMentioning(session_state.logs, PatError))
        /\ report.warning_count = Cardinality(RecordsMentioning(session_state.logs, PatWarn))
  IN /\ report.anomaly = "raised" =>
          "anomaly_failed" \in ui /\ counted /\ report.summ # "not_run"
     /\ report.summ = "raised" => "summ_failed" \in ui /\ counted

C3_Witness ==
  /\ AnalysedRecords
  /\ report.anomaly = "raised"
  /\ report.summ = "raised"

\* C4 as stated: error_count + warning_count <= total, so the Normal count
\* of the chart is never negative.
C4_ErrorsPlusWarningsWithinTotal ==
  report.classify = "ok" =>
    /\ report.error_count + report.warning_count <= report.total_logs
    /\ report.normal >= 0

\* C4 as amended: each of error_count and warning_count is at most total;
\* a record matching both patterns is in both, so the Normal count
\* total - (error_count + warning_count) can be negative, but not below
\* -total.
C4_EachCountWithinTotal ==
  report.classify = "ok" =>
    /\ 0 <= report.error_count /\ report.error_count <= report.total_logs
    /\ 0 <= report.warning_count /\ report.warning_count <= report.total_logs
    /\ report.normal = report.total_logs - (report.error_count + report.warning_count)
    /\ report.normal >= 0 - report.total_logs

C4_Witness ==
  /\ AnalysedRecords
  /\ report.classify = "ok"
  /\ report.normal < 0

\* C5: counted from the upload on: an upload of n lines of text gives
\* total n, error_count the number of its lines that contain "error" and
\* warning_count the number that contain "warn", both case-insensitively
\* and each on its own (10 lines, 3 with ERROR and 2 with warn, give
\* 10, 3 and 2).
C5_CountsPerInputLine ==
  (page = "analysis" /\ report.classify = "ok"
     /\ uploaded_file.status = "stored" /\ Decodable(uploaded_file.lines)) =>
    /\ report.total_logs = Len(uploaded_file.lines)
    /\ report.error_count =
         Cardinality({i \in 1..Len(uploaded_file.lines) :
                        Mentions(uploaded_file.lines[i], PatError)})
    /\ report.warning_count =
         Cardinality({i \in 1..Len(uploaded_file.lines) :
                        Mentions(uploaded_file.lines[i], PatWarn)})

\* Over the frame that is stored, whatever upload it came from, the counts
\* of lines 88-90 are the numbers of rows whose cells contain the pattern.
CountsOverStoredRecords ==
  report.classify = "ok" =>
    /\ report.total_logs = Len(StoredRecords)
    /\ report.error_count = Cardinality(RecordsMentioning(session_state.logs, PatError))
    /\ report.warning_count = Cardinality(RecordsMentioning(session_state.logs, PatWarn))

\* C6: a non-empty upload that decodes as text is stored as one record per
\* line, in the order of the lines, none taken as a header or dropped.
C6_OneRecordPerLine ==
  (uploaded_file.status = "stored" /\ uploaded_file.lines # <<>>
     /\ Decodable(uploaded_file.lines)) =>
    /\ Len(StoredRecords) = Len(uploaded_file.lines)
    /\ \A i \in 1..Len(StoredRecords) :
          \/ StoredRecords[i] = <<uploaded_file.lines[i]>>
          \/ StoredRecords[i] = SplitFields(uploaded_file.lines[i])

\* C7: for every stored batch, from the structured parse or from the
\* fallback, the detector is run and yields one finding per record.
C7_DetectorCoversEveryBatch ==
  (AnalysedRecords /\ report.classify = "ok") =>
    /\ report.anomaly = "ok"
    /\ report.n_preds = Len(StoredRecords)

\* C8: over any sequence of analysis runs of one process the summarization
\* model is constructed at most once.
C8_ModelLoadedAtMostOnce == pipelineLoads <= 1

\* C9: an analysis run completes even when the summarization call never
\* returns: a timeout ends the call, so a run inside the summarizer can
\* always take a further step.
C9_SummarizationIsBounded == pc = "in_summarizer" => ENABLED Next

\* C10: the stored logs change only in a run of the Upload Logs page that
\* ingested a file; the Home page, the Analysis page, the Upload Logs page
\* without a file and an upload that raised leave them as they were; and
\* without stored logs the Analysis page shows the "upload logs first"
\* warning and runs no stage.
C10_LogsWrittenOnlyByIngest ==
  [][/\ session_state' # session_state =>
          /\ page' = "upload"
          /\ ~crashed'
          /\ uploaded_file'.status = "stored"
          /\ "preview" \in ui'
          /\ session_state'.has_logs
     /\ (page' = "upload" /\ (crashed' \/ "preview" \notin ui')) =>
          session_state' = session_state
     /\ (page' = "analysis" /\ ~session_state'.has_logs) =>
          /\ "upload_first" \in ui'
          /\ report' = NoReport
          /\ ~crashed'
          /\ pc' = "idle"]_vars

C10_Witness ==
  /\ page = "upload"
  /\ crashed
  /\ uploaded_file.status = "raised"
  /\ session_state.has_logs
  /\ StoredRecords # <<>>

=============================================================================
